---- MODULE Spec2Model ----
(***************************************************************************)
(* pcl::PointRepresentation<PointT> and DefaultPointRepresentation<P>      *)
(* (point_representation header), and the KdTreeFLANN wrapper that main()  *)
(* drives.  One representation object is modelled together with the frame  *)
(* of the last call made on it (argument point, output buffer, result).    *)
(*                                                                         *)
(* A point of type P is its memory seen as float words: a sequence of      *)
(* sizeofP \div SizeofFloat floats; the sizeofP % SizeofFloat trailing      *)
(* bytes hold no float and are never read.  Sequences are 1-based, the     *)
(* code's arrays 0-based: entry i+1 here is element [i] there.             *)
(***************************************************************************)
EXTENDS Integers, Sequences, FiniteSets, TLC

(***************************************************************************)
(* Bounds of the model.                                                    *)
(***************************************************************************)
\* Largest finite float magnitude (stands for FLT_MAX): finite floats are
\* the integers -MaxMag..MaxMag, a product beyond it overflows to infinity.
MaxMag == 2
\* Largest sizeof(PointT) in bytes.
MaxSizeof == 16
\* Extra entries of the caller's output buffer beyond the three a default
\* representation can write.
OutSlack == 1
\* Largest point cloud given to setInputCloud.
MaxCloud == 2
\* Largest k given to nearestKSearch.
MaxK == 1

(***************************************************************************)
(* Program constants.                                                      *)
(***************************************************************************)
SizeofFloat == 4
MaxDefaultDims == 3

(***************************************************************************)
(* IEEE floats, by value.  All NaNs are one value.                         *)
(***************************************************************************)
PInf == MaxMag + 1
NInf == -(MaxMag + 1)
NaN == MaxMag + 2
FloatVals == (NInf..PInf) \cup {NaN}

Abs(x) == IF x < 0 THEN -x ELSE x

\* std::isfinite
IsFinite(x) == x \in (-MaxMag)..MaxMag

IsInf(x) == x = PInf \/ x = NInf

\* float operator* (temp[i] * alpha_[i])
FMul(a, b) ==
    IF a = NaN \/ b = NaN THEN NaN
    ELSE IF (IsInf(a) /\ b = 0) \/ (a = 0 /\ IsInf(b)) THEN NaN
    ELSE IF a = 0 \/ b = 0 THEN 0
    ELSE LET neg == (a < 0) # (b < 0)
             big == IsInf(a) \/ IsInf(b) \/ Abs(a) * Abs(b) > MaxMag
         IN  IF big THEN (IF neg THEN NInf ELSE PInf) ELSE a * b

\* a finite result beyond MaxMag overflows to infinity
Overflow(x) == IF x > MaxMag THEN PInf ELSE IF x < -MaxMag THEN NInf ELSE x

\* float operator+
FAdd(a, b) ==
    IF a = NaN \/ b = NaN THEN NaN
    ELSE IF IsInf(a) /\ IsInf(b) THEN (IF a = b THEN a ELSE NaN)
    ELSE IF IsInf(a) THEN a
    ELSE IF IsInf(b) THEN b
    ELSE Overflow(a + b)

\* float operator-
FSub(a, b) == IF b = NaN THEN NaN ELSE FAdd(a, -b)

\* float operator<
FLess(a, b) == a # NaN /\ b # NaN /\ a < b

(***************************************************************************)
(* Inputs.                                                                 *)
(***************************************************************************)
\* coordinate values of the points passed in
PointVals == {MaxMag, NInf, NaN}
\* rescale weights passed in
WeightVals == {0, 1, NaN}

SeqsOf(S, n) == [1..n -> S]

NrWords(size) == size \div SizeofFloat

Points(size) == SeqsOf(PointVals, NrWords(size))

OutCap == MaxDefaultDims + OutSlack
\* the caller's buffer before the call
OutBuffers == {[i \in 1..OutCap |-> 0]}

Min(a, b) == IF a < b THEN a ELSE b

\* custom subclasses: copyToFloatArray picks the point's float fields in the
\* order given (field numbers, 1-based); usable when P has those fields
CustomFieldMaps == {<<2>>, <<2, 1>>}
FitsIn(map, size) == \A i \in 1..Len(map) : map[i] <= NrWords(size)

VARIABLES
    kind,           \* "default": DefaultPointRepresentation<P>, "custom": another subclass
    sizeofP,        \* sizeof(PointT)
    fieldMap,       \* the custom subclass's copyToFloatArray (<<>> for "default")
    constructed,    \* the constructor body has run
    nr_dimensions,  \* nr_dimensions_
    alpha,          \* alpha_
    trivial,        \* trivial_
    rescaleCalled,  \* history: setRescaleValues has been called
    lastWeights,    \* history: the array given to the last setRescaleValues
    lastOp,         \* the last member function called
    p,              \* its point argument
    outBefore,      \* the caller's output buffer before the call
    out,            \* the caller's output buffer after the call
    ret,            \* its boolean result
    dims,           \* its integer result
    input,          \* KdTreeFLANN: the cloud bound by setInputCloud
    dataset,        \* KdTreeFLANN: the feature vectors of the last build
    built,          \* KdTreeFLANN: Unbuilt (FALSE) or Built (TRUE)
    k_indices,      \* the caller's output container of indices
    k_sqr_distances,\* the caller's output container of squared distances
    status,         \* how the last KdTreeFLANN call ended
    searched3D      \* history: a tree of three dimensions has been searched

typeVars == <<kind, sizeofP, fieldMap>>
repVars == <<constructed, nr_dimensions, alpha, trivial>>
histVars == <<rescaleCalled, lastWeights>>
callVars == <<lastOp, p, outBefore, out, ret, dims>>
treeVars == <<input, dataset, built>>
resultVars == <<k_indices, k_sqr_distances>>
idxVars == <<treeVars, resultVars, status, searched3D>>
vars == <<typeVars, repVars, histVars, callVars, idxVars>>

\* the object the member functions run on
Self == [kind |-> kind, fieldMap |-> fieldMap, nr_dimensions |-> nr_dimensions,
         alpha |-> alpha, trivial |-> trivial]

(***************************************************************************)
(* The member functions, as functions of the object and their arguments.   *)
(***************************************************************************)
\* the constructor without its clamp to three dimensions
DefaultNrDimensionsUnclamped(size) == size \div SizeofFloat

\* DefaultPointRepresentation(): nr_dimensions_ after the constructor body
DefaultNrDimensions(size) ==
    LET n == size \div SizeofFloat
    IN  IF n > MaxDefaultDims THEN MaxDefaultDims ELSE n

\* copyToFloatArray filling out with the point's first float
DefaultCopyFirstRepeated(pt, n) == [i \in 1..n |-> pt[1]]

\* DefaultPointRepresentation::copyToFloatArray: std::copy(ptr, ptr + nr_dimensions_, out)
DefaultCopyToFloatArray(pt, n) == [i \in 1..n |-> pt[i]]

\* a custom subclass's copyToFloatArray
CustomCopyToFloatArray(pt, map) == [i \in 1..Len(map) |-> pt[map[i]]]

\* the virtual call copyToFloatArray(p, temp): temp[0..nr_dimensions_-1]
CopyToFloatArray(self, pt) ==
    IF self.kind = "default" THEN DefaultCopyToFloatArray(pt, self.nr_dimensions)
    ELSE CustomCopyToFloatArray(pt, self.fieldMap)

\* isTrivial() that forgets the rescale vector
IsTrivialFlagOnly(self) == self.trivial

\* isTrivial()
IsTrivial(self) == self.trivial /\ self.alpha = <<>>

\* for (i = 0; i < n; ++i) if (!std::isfinite(temp[i])) { is_valid = false; break; }
RECURSIVE FiniteLoop(_, _, _)
FiniteLoop(temp, i, n) ==
    IF i > n THEN TRUE
    ELSE IF ~IsFinite(temp[i]) THEN FALSE
    ELSE FiniteLoop(temp, i + 1, n)

\* the trivial_ branch with its loop one short
IsValidFastShort(self, pt) == FiniteLoop(pt, 1, self.nr_dimensions - 1)

\* isValid, trivial_ branch: temp = reinterpret_cast<const float*>(&p)
IsValidFast(self, pt) == FiniteLoop(pt, 1, self.nr_dimensions)

\* the else branch checking the point's leading floats instead of the converted ones
IsValidSlowRaw(self, pt) == FiniteLoop(pt, 1, self.nr_dimensions)

\* isValid, else branch: temp = new float[n]; copyToFloatArray(p, temp)
IsValidSlow(self, pt) == FiniteLoop(CopyToFloatArray(self, pt), 1, self.nr_dimensions)


\* for (i = 0; i < n; ++i) out[i] = temp[i] [* alpha_[i]]
RECURSIVE VectorizeLoop(_, _, _, _, _)
VectorizeLoop(buf, temp, al, i, n) ==
    IF i > n THEN buf
    ELSE VectorizeLoop(
             [buf EXCEPT ![i] = IF al = <<>> THEN temp[i] ELSE FMul(temp[i], al[i])],
             temp, al, i + 1, n)

\* vectorize that never applies the rescale weights
VectorizeUnweighted(self, pt, buf) ==
    VectorizeLoop(buf, CopyToFloatArray(self, pt), <<>>, 1, self.nr_dimensions)

\* vectorize whose weighted branch writes alpha_[i] alone
VectorizeWeightOnly(self, pt, buf) ==
    [i \in 1..Len(buf) |->
        IF i > self.nr_dimensions THEN buf[i]
        ELSE IF self.alpha = <<>> THEN CopyToFloatArray(self, pt)[i]
        ELSE self.alpha[i]]

\* vectorize(p, out): the buffer after the call
Vectorize(self, pt, buf) ==
    VectorizeLoop(buf, CopyToFloatArray(self, pt), self.alpha, 1, self.nr_dimensions)

\* isValid checking the rescaled values vectorize would produce
IsValidRescaled(self, pt) ==
    FiniteLoop(Vectorize(self, pt, [i \in 1..self.nr_dimensions |-> 0]), 1, self.nr_dimensions)

\* isValid(p)
IsValid(self, pt) ==
    IF self.trivial THEN IsValidFast(self, pt) ELSE IsValidSlow(self, pt)

\* std::vector<float>::resize(n): keeps the first n entries, value-initialises new ones
Resize(v, n) == [i \in 1..n |-> IF i <= Len(v) THEN v[i] ELSE 0]

\* std::copy(first, first + n, dest.begin())
CopyInto(arr, n, dest) == [i \in 1..Len(dest) |-> IF i <= n THEN arr[i] ELSE dest[i]]

\* setRescaleValues copying one weight too few
SetRescaleValuesShort(self, arr) ==
    CopyInto(arr, self.nr_dimensions - 1, Resize(self.alpha, self.nr_dimensions))

\* setRescaleValues(rescale_array): alpha_ after the call
SetRescaleValues(self, arr) ==
    CopyInto(arr, self.nr_dimensions, Resize(self.alpha, self.nr_dimensions))

(***************************************************************************)
(* The state machine of one representation object.                         *)
(***************************************************************************)
\* the frame of a call: the function, its arguments and its results
Frame(op, pt, before, after, b, d) ==
    /\ lastOp' = op
    /\ p' = pt
    /\ outBefore' = before
    /\ out' = after
    /\ ret' = b
    /\ dims' = d

\* no KdTreeFLANN exists
NoIndex ==
    /\ input = <<>>
    /\ dataset = <<>>
    /\ built = FALSE
    /\ k_indices = <<>>
    /\ k_sqr_distances = <<>>
    /\ status = "none"
    /\ searched3D = FALSE

\* member initialisers of PointRepresentation, before the constructor body
Init ==
    /\ kind \in {"default", "custom"}
    /\ sizeofP \in 1..MaxSizeof
    /\ fieldMap \in IF kind = "default" THEN {<<>>}
                    ELSE {m \in CustomFieldMaps : FitsIn(m, sizeofP)}
    /\ constructed = FALSE
    /\ nr_dimensions = 0
    /\ alpha = <<>>
    /\ trivial = FALSE
    /\ rescaleCalled = FALSE
    /\ lastWeights = <<>>
    /\ lastOp = "none"
    /\ p = <<>>
    /\ outBefore = <<>>
    /\ out = <<>>
    /\ ret = FALSE
    /\ dims = 0
    /\ NoIndex

DefaultConstruct ==
    /\ ~constructed
    /\ kind = "default"
    /\ constructed' = TRUE
    /\ nr_dimensions' = DefaultNrDimensions(sizeofP)
    /\ trivial' = TRUE
    /\ Frame("construct", <<>>, <<>>, <<>>, FALSE, 0)
    /\ UNCHANGED <<idxVars, typeVars, alpha, histVars>>

CustomConstruct ==
    /\ ~constructed
    /\ kind = "custom"
    /\ constructed' = TRUE
    /\ nr_dimensions' = Len(fieldMap)
    /\ Frame("construct", <<>>, <<>>, <<>>, FALSE, 0)
    /\ UNCHANGED <<idxVars, typeVars, alpha, trivial, histVars>>

CallIsTrivial ==
    /\ constructed
    /\ Frame("isTrivial", <<>>, <<>>, <<>>, IsTrivial(Self), 0)
    /\ UNCHANGED <<idxVars, typeVars, repVars, histVars>>

CallGetNumberOfDimensions ==
    /\ constructed
    /\ Frame("getNumberOfDimensions", <<>>, <<>>, <<>>, FALSE, nr_dimensions)
    /\ UNCHANGED <<idxVars, typeVars, repVars, histVars>>

CallSetRescaleValues ==
    /\ constructed
    /\ \E arr \in SeqsOf(WeightVals, nr_dimensions) :
          /\ alpha' = SetRescaleValues(Self, arr)
          /\ lastWeights' = arr
    /\ rescaleCalled' = TRUE
    /\ Frame("setRescaleValues", <<>>, <<>>, <<>>, FALSE, 0)
    /\ UNCHANGED <<idxVars, typeVars, constructed, nr_dimensions, trivial>>

CallIsValid ==
    /\ constructed
    /\ \E pt \in Points(sizeofP) :
          Frame("isValid", pt, <<>>, <<>>, IsValid(Self, pt), 0)
    /\ UNCHANGED <<idxVars, typeVars, repVars, histVars>>

CallVectorize ==
    /\ constructed
    /\ \E pt \in Points(sizeofP), buf \in OutBuffers :
          Frame("vectorize", pt, buf, Vectorize(Self, pt, buf), FALSE, 0)
    /\ UNCHANGED <<idxVars, typeVars, repVars, histVars>>

CallCopyToFloatArray ==
    /\ constructed
    /\ \E pt \in Points(sizeofP), buf \in OutBuffers :
          Frame("copyToFloatArray", pt, buf,
                CopyInto(CopyToFloatArray(Self, pt), nr_dimensions, buf), FALSE, 0)
    /\ UNCHANGED <<idxVars, typeVars, repVars, histVars>>

Next ==
    \/ DefaultConstruct
    \/ CustomConstruct
    \/ CallIsTrivial
    \/ CallGetNumberOfDimensions
    \/ CallSetRescaleValues
    \/ CallIsValid
    \/ CallVectorize
    \/ CallCopyToFloatArray

Spec == Init /\ [][Next]_vars

(***************************************************************************)
(* KdTreeFLANN<PointT> over a DefaultPointRepresentation<PointT>, as main() *)
(* uses it: setInputCloud builds the dataset with vectorize, and           *)
(* nearestKSearch answers from it by squared Euclidean distance.           *)
(***************************************************************************)
\* sizeof of the point types indexed: two chars, Vector2f, Vector3f
IndexSizes == {2, 8, 12}

\* the points given to the index: the origin, (0,..,0,1) and (inf,0,..,0)
IndexPoints(size) ==
    LET n == NrWords(size)
    IN  { [i \in 1..n |-> 0],
          [i \in 1..n |-> IF i = n THEN 1 ELSE 0],
          [i \in 1..n |-> IF i = 1 THEN PInf ELSE 0] }

Clouds(size) == UNION {SeqsOf(IndexPoints(size), n) : n \in 0..MaxCloud}

\* one feature vector per point of the cloud, in order, each made by vectorize
ConvertCloudToArray(self, cloud) ==
    [i \in 1..Len(cloud) |->
        Vectorize(self, cloud[i], [j \in 1..self.nr_dimensions |-> 0])]

\* squared Euclidean distance of two feature vectors of n entries
RECURSIVE SqDistFrom(_, _, _, _, _)
SqDistFrom(a, b, i, n, acc) ==
    IF i > n THEN acc
    ELSE LET d == FSub(a[i], b[i])
         IN  SqDistFrom(a, b, i + 1, n, FAdd(acc, FMul(d, d)))

SqDist(a, b, n) == SqDistFrom(a, b, 1, n, 0)

\* ascending squared distance, ties by ascending index
KeyLess(d, i, j) == FLess(d[i], d[j]) \/ (~FLess(d[j], d[i]) /\ i < j)

RECURSIVE InsertSorted(_, _, _)
InsertSorted(x, sorted, d) ==
    IF sorted = <<>> THEN <<x>>
    ELSE IF KeyLess(d, x, Head(sorted)) THEN <<x>> \o sorted
    ELSE <<Head(sorted)>> \o InsertSorted(x, Tail(sorted), d)

RECURSIVE SortIndices(_, _)
SortIndices(n, d) ==
    IF n = 0 THEN <<>> ELSE InsertSorted(n, SortIndices(n - 1, d), d)

\* the engine's answer: the indices of the k nearest vectors, nearest first
QueryKNearest(data, qv, k, n) ==
    LET d == SubSeq([i \in 1..Len(data) |-> SqDist(qv, data[i], n)], 1, Len(data))
    IN  SubSeq(SortIndices(Len(data), d), 1, Min(k, Len(data)))

IndexFrame(op, pt, count, st) ==
    /\ Frame(op, pt, <<>>, <<>>, FALSE, count)
    /\ status' = st

\* no tree yet: the representation it will own is not constructed
IndexInit ==
    /\ kind = "default"
    /\ sizeofP \in IndexSizes
    /\ fieldMap = <<>>
    /\ constructed = FALSE
    /\ nr_dimensions = 0
    /\ alpha = <<>>
    /\ trivial = FALSE
    /\ rescaleCalled = FALSE
    /\ lastWeights = <<>>
    /\ lastOp = "none"
    /\ p = <<>>
    /\ outBefore = <<>>
    /\ out = <<>>
    /\ ret = FALSE
    /\ dims = 0
    /\ NoIndex

\* pcl::KdTreeFLANN<P> kd_tree: a new tree, Unbuilt, with the default representation
NewTree ==
    /\ \E size \in IndexSizes :
          /\ sizeofP' = size
          /\ nr_dimensions' = DefaultNrDimensions(size)
    /\ constructed' = TRUE
    /\ trivial' = TRUE
    /\ alpha' = <<>>
    /\ input' = <<>>
    /\ dataset' = <<>>
    /\ built' = FALSE
    /\ IndexFrame("KdTreeFLANN", <<>>, 0, "ok")
    /\ UNCHANGED <<kind, fieldMap, histVars, resultVars, searched3D>>

\* setInputCloud(cloud): Built, with the dataset of the cloud
SetInputCloud ==
    /\ constructed
    /\ nr_dimensions # 0
    /\ \E cloud \in Clouds(sizeofP) :
          /\ cloud # <<>>
          /\ input' = cloud
          /\ dataset' = ConvertCloudToArray(Self, cloud)
    /\ built' = TRUE
    /\ IndexFrame("setInputCloud", <<>>, 0, "ok")
    /\ UNCHANGED <<typeVars, repVars, histVars, resultVars, searched3D>>

\* setInputCloud of an empty cloud, or with a representation of no dimensions
SetInputCloudInvalid ==
    /\ constructed
    /\ \E cloud \in Clouds(sizeofP) : cloud = <<>> \/ nr_dimensions = 0
    /\ IndexFrame("setInputCloud", <<>>, 0, "InvalidInputError")
    /\ UNCHANGED <<typeVars, repVars, histVars, treeVars, resultVars, searched3D>>

\* nearestKSearch before any successful setInputCloud
NearestKSearchNotBuilt ==
    /\ constructed
    /\ ~built
    /\ \E q \in IndexPoints(sizeofP), k \in 0..MaxK :
          IndexFrame("nearestKSearch", <<>>, 0, "NotBuiltError")
    /\ UNCHANGED <<typeVars, repVars, histVars, treeVars, resultVars, searched3D>>

\* nearestKSearch with k <= 0
NearestKSearchInvalidK ==
    /\ constructed
    /\ built
    /\ \E q \in IndexPoints(sizeofP), k \in {0} :
          IndexFrame("nearestKSearch", <<>>, 0, "InvalidArgumentError")
    /\ UNCHANGED <<typeVars, repVars, histVars, treeVars, resultVars, searched3D>>

\* nearestKSearch(q, k, k_indices, k_sqr_distances) on a Built tree
NearestKSearch ==
    /\ constructed
    /\ built
    /\ \E q \in IndexPoints(sizeofP), k \in 1..MaxK :
          LET n == nr_dimensions
              qv == Vectorize(Self, q, [j \in 1..n |-> 0])
              found == QueryKNearest(dataset, qv, k, n)
          IN  /\ k_indices' = found
              /\ k_sqr_distances' = [i \in 1..Len(found) |-> SqDist(qv, dataset[found[i]], n)]
              /\ IndexFrame("nearestKSearch", q, Len(found), "ok")
    /\ searched3D' = (searched3D \/ nr_dimensions = 3)
    /\ UNCHANGED <<typeVars, repVars, histVars, treeVars>>

IndexNext ==
    \/ NewTree
    \/ SetInputCloud
    \/ SetInputCloudInvalid
    \/ NearestKSearchNotBuilt
    \/ NearestKSearchInvalidK
    \/ NearestKSearch

SpecIndex == IndexInit /\ [][IndexNext]_vars

(***************************************************************************)
(* Properties of the representation.                                       *)
(***************************************************************************)
\* what the constructor of this representation's class sets
CtorNrDimensions == IF kind = "default" THEN DefaultNrDimensions(sizeofP) ELSE Len(fieldMap)
CtorTrivial == kind = "default"

\* every rescale vector a representation of n dimensions can hold
AlphaStates(n) == {<<>>} \cup SeqsOf(FloatVals, n)

\* C1: once setRescaleValues has been called, isTrivial() returns false,
\* whatever nr_dimensions is (0 included) and whatever the weights are.
C1_NotTrivialAfterRescale ==
    (lastOp = "isTrivial" /\ rescaleCalled) => ret = FALSE

C3_IsValidIffAllFinite ==
    lastOp = "isValid" =>
        (ret = FALSE <=>
            \E i \in 1..nr_dimensions :
                LET c == CopyToFloatArray(Self, p)[i]
                IN  c = NaN \/ c = PInf \/ c = NInf)

C3_Witness ==
    /\ lastOp = "isValid"
    /\ kind = "custom"
    /\ nr_dimensions = 2
    /\ p[1] = NInf
    /\ p[2] = MaxMag
    /\ ret = FALSE

\* C4: on a trivial representation (trivial flag set, no rescale weights),
\* isValid's direct read of the point's memory gives the boolean that the
\* conversion with copyToFloatArray followed by the check gives.
C4_FastPathAgreesWithSlowPath ==
    (lastOp = "isValid" /\ IsTrivial(Self)) =>
        /\ ret = IsValidFast(Self, p)
        /\ ret = IsValidSlow(Self, p)

C4_Witness ==
    /\ lastOp = "isValid"
    /\ IsTrivial(Self)
    /\ nr_dimensions = MaxDefaultDims
    /\ p[MaxDefaultDims] = NaN
    /\ \A i \in 1..(MaxDefaultDims - 1) : IsFinite(p[i])
    /\ ret = FALSE

\* C5: vectorize(p, out) writes out[0..nr_dimensions-1] and nothing else:
\* c[i] * alpha[i] when weights are configured, else c[i], with c the result
\* of copyToFloatArray(p); it leaves nr_dimensions, alpha and the trivial
\* flag as they were.
C5_VectorizeWritesExactly ==
    [][lastOp' = "vectorize" =>
          /\ Len(out') = Len(outBefore')
          /\ \A i \in 1..Len(out') :
                out'[i] = IF i > nr_dimensions THEN outBefore'[i]
                          ELSE IF alpha = <<>> THEN CopyToFloatArray(Self, p')[i]
                          ELSE FMul(CopyToFloatArray(Self, p')[i], alpha[i])
          /\ UNCHANGED <<typeVars, repVars>>]_vars

C5_Witness ==
    /\ lastOp = "vectorize"
    /\ nr_dimensions = MaxDefaultDims
    /\ Len(out) > nr_dimensions
    /\ alpha # <<>>
    /\ \E i \in 1..nr_dimensions : out[i] # p[i]
    /\ \E i \in 1..nr_dimensions : out[i] # outBefore[i]

\* C6: with all weights 1.0, vectorize produces the out it produces with no
\* weights configured.
C6_UnitWeightsAreNeutral ==
    (lastOp = "vectorize" /\ alpha # <<>> /\ \A i \in 1..Len(alpha) : alpha[i] = 1) =>
        out = Vectorize([Self EXCEPT !.alpha = <<>>], p, outBefore)

C6_Witness ==
    /\ lastOp = "vectorize"
    /\ Len(alpha) = MaxDefaultDims
    /\ \A i \in 1..Len(alpha) : alpha[i] = 1
    /\ p[1] = NaN /\ p[2] = NInf /\ p[3] = MaxMag

\* C7: a constructed DefaultPointRepresentation<P> has the trivial flag set
\* and floor(sizeof(P) / sizeof(float)) dimensions, at most 3: 0 when P is
\* smaller than a float, and the constructor runs for every size.
C7_DefaultDimensions ==
    kind = "default" =>
        /\ ~constructed => ENABLED DefaultConstruct
        /\ constructed =>
              /\ trivial
              /\ nr_dimensions <= 3
              /\ sizeofP < SizeofFloat => nr_dimensions = 0
              /\ \E q \in 0..sizeofP :
                    /\ q * SizeofFloat <= sizeofP
                    /\ sizeofP < (q + 1) * SizeofFloat
                    /\ nr_dimensions = Min(q, 3)
        /\ lastOp = "getNumberOfDimensions" => dims = nr_dimensions

C7_Witness ==
    /\ kind = "default"
    /\ sizeofP > 3 * SizeofFloat + SizeofFloat - 1
    /\ lastOp = "getNumberOfDimensions"
    /\ dims = 3

\* C8: alpha is empty or has nr_dimensions entries, those of the array given
\* to the latest setRescaleValues; setRescaleValues leaves nr_dimensions and
\* the trivial flag as the constructor set them.
C8_AlphaShape ==
    /\ alpha = <<>> \/ Len(alpha) = nr_dimensions
    /\ ~rescaleCalled => alpha = <<>>
    /\ rescaleCalled =>
          /\ Len(alpha) = nr_dimensions
          /\ \A i \in 1..nr_dimensions : alpha[i] = lastWeights[i]
    /\ constructed =>
          /\ nr_dimensions = CtorNrDimensions
          /\ trivial = CtorTrivial

C8_Witness ==
    /\ lastOp = "setRescaleValues"
    /\ rescaleCalled
    /\ Len(alpha) = MaxDefaultDims
    /\ alpha[1] = NaN /\ alpha[2] = 0 /\ alpha[3] = 1

\* C10: isValid(p) is the same boolean whatever the rescale vector is
\* (unset, or any weights, 0, NaN and infinite ones included).
C10_IsValidIgnoresAlpha ==
    lastOp = "isValid" =>
        \A a \in AlphaStates(nr_dimensions) :
            IsValid([Self EXCEPT !.alpha = a], p) = ret

\* ... so that a point reported valid can vectorize to a non-finite entry
C10_Witness ==
    /\ lastOp = "isValid"
    /\ ret = TRUE
    /\ alpha # <<>>
    /\ \E i \in 1..nr_dimensions :
          ~IsFinite(Vectorize(Self, p, [j \in 1..OutCap |-> 0])[i])

(***************************************************************************)
(* Properties of the index.                                                *)
(***************************************************************************)
\* q is a point of the bound cloud and nearestKSearch(q, k), k >= 1, has answered
SearchedCloudPoint ==
    /\ lastOp = "nearestKSearch"
    /\ status = "ok"
    /\ \E i \in 1..Len(input) : input[i] = p

\* the first result is at squared distance 0 and is q in the indexed coordinates
FirstIsQueryAtZero ==
    /\ dims >= 1
    /\ k_sqr_distances[1] = 0
    /\ \A j \in 1..nr_dimensions : input[k_indices[1]][j] = p[j]

\* C9, as claimed: for every non-empty cloud and every q equal to one of its
\* points, nearestKSearch(q, k), k >= 1, returns that point first (or tied
\* first) at squared distance exactly 0.
C9_CloudPointFoundAtZero ==
    SearchedCloudPoint => FirstIsQueryAtZero

\* C9, amended: the same for clouds whose points have only finite
\* coordinates, whatever tree was built and searched before with the same
\* output containers.
C9_FiniteCloudPointFoundAtZero ==
    (SearchedCloudPoint /\ \A i \in 1..Len(input) : \A j \in 1..Len(input[i]) : IsFinite(input[i][j]))
        => FirstIsQueryAtZero

C9_Witness ==
    /\ SearchedCloudPoint
    /\ sizeofP = 2 * SizeofFloat
    /\ searched3D
    /\ Len(input) = 2
    /\ \A j \in 1..2 : IsFinite(input[1][j]) /\ IsFinite(input[2][j])
    /\ input[1] # input[2]
    /\ p = input[2]
    /\ k_indices[1] = 2
    /\ k_sqr_distances[1] = 0

====
